---- MODULE Spec2Model ----
(***************************************************************************)
(* Size-targeted transcoding pipeline of torchio (src-tauri/src):          *)
(* converter.rs (job pipeline, capability cache, marker adjustment),       *)
(* ffmpeg.rs (prober, progress monitor) and lib.rs (command boundary).     *)
(*                                                                         *)
(* Times are non-negative numbers of a small binary floating-point format  *)
(* (see RoundF); progress values are kept in hundredths of a percent.      *)
(***************************************************************************)
EXTENDS Integers, Sequences, FiniteSets, TLC

\* ------------------------------------------------------------------------
\* Bounds of the model
\* ------------------------------------------------------------------------
\* job slots (concurrent convert_file invocations)
NJobs == 3
\* progress lines carrying out_time_us that one encoder process prints
MaxLines == 2
\* largest elapsed output time an encoder reports
MaxTime == 3
\* markers in a list handed to adjust_markers_for_trim on its own
MaxMarkers == 2

Jobs == 1..NJobs

\* ------------------------------------------------------------------------
\* Option<T>
\* ------------------------------------------------------------------------
None == <<>>
Some(x) == <<x>>
IsSome(o) == o # <<>>
UnwrapOr(o, d) == IF o = <<>> THEN d ELSE o[1]

Min(a, b) == IF a <= b THEN a ELSE b

\* ------------------------------------------------------------------------
\* Progress arithmetic (values in hundredths of a percent)
\* ------------------------------------------------------------------------
Percent == 100

\* run_ffmpeg_with_progress: (current_time / duration * 100.0).min(100.0);
\* a zero duration divides to +inf or NaN, and f64::min then yields 100.0
LocalProgressNoClamp(t, dur) ==
    IF dur = 0 THEN 100 * Percent ELSE (t * 100 * Percent) \div dur

LocalProgress(t, dur) ==
    IF dur = 0 THEN 100 * Percent
    ELSE Min((t * 100 * Percent) \div dur, 100 * Percent)

\* the tiers of convert_to_webp / convert_to_gif
NumTiers == 6

\* the closures handed to run_ffmpeg_with_progress
MapProgressFlat(stage, i, p) == 5 * Percent + (p * 95) \div 100

MapProgress(stage, i, p) ==
    CASE stage = "single" -> 5 * Percent + (p * 95) \div 100
      [] stage = "pass1"  -> 5 * Percent + (p * 45) \div 100
      [] stage = "pass2"  -> 50 * Percent + (p * 50) \div 100
      [] stage = "tier"   -> (i * 90 * Percent) \div NumTiers
                             + (p * (90 \div NumTiers)) \div 100

\* progress_base of tier i
TierBase(i) == (i * 90 * Percent) \div NumTiers

\* ------------------------------------------------------------------------
\* Requests
\* ------------------------------------------------------------------------
KnownTypes == {"mp4", "mov", "mkv", "mp4_hevc", "webp", "gif"}
H264Types == {"mp4", "mov", "mkv"}
TieredTypes == {"webp", "gif"}
UnknownTags == {"avi", "MP4"}

Marker(id, time, name) == [id |-> id, time |-> time, name |-> name]

EndsWithMkv(name) == name \in {"clip.mkv"}

MkRequest(ty, name, target, ts, td, mk) ==
    [conversion_type |-> ty, output_name |-> name, target_bytes |-> target,
     trim_start |-> ts, trim_duration |-> td, markers |-> mk]

NoRequest == MkRequest("", "", 0, None, None, None)

MarkerLists ==
    {None, Some(<<>>), Some(<<Marker(1, 1, None)>>),
     Some(<<Marker(1, 5, Some("end"))>>)}

\* the requests a single job is run on
Requests ==
    {MkRequest(ty, "clip.mp4", 200, None, None, None) : ty \in UnknownTags}
    \cup {MkRequest(ty, name, 200, ts, td, None) :
            ty \in {"mp4", "mov", "mp4_hevc"}, name \in {"clip.mp4"},
            ts \in {None}, td \in {None, Some(2)}}
    \cup {MkRequest("mov", "clip.mp4", target, None, None, None) :
            target \in {100000, 364000}}
    \cup {MkRequest("mkv", name, 200, ts, td, mk) :
            name \in {"clip.mkv", "clip.mp4"}, ts \in {None, Some(1)},
            td \in {None, Some(2)}, mk \in MarkerLists}
    \cup {MkRequest("mkv", "clip.mkv", 200, None, None,
                     Some(<<Marker(1, 6, None), Marker(2, 2, None)>>))}
    \cup {MkRequest(ty, "clip.mkv", 200, None, None,
                     Some(<<Marker(1, 1, None)>>)) :
            ty \in {"mov", "mp4_hevc", "gif"}}
    \cup {MkRequest(ty, "clip.webp", target, None, td, None) :
            ty \in TieredTypes, target \in {137, 200},
            td \in {None, Some(0), Some(2)}}

\* ------------------------------------------------------------------------
\* ConversionResult and Result<ConversionResult, String>
\* ------------------------------------------------------------------------
ConversionResult(success, path, size, error) ==
    [success |-> success, output_path |-> path, output_size |-> size,
     error |-> error]

NoResult == ConversionResult(FALSE, None, None, None)

Ok(r) == [tag |-> "Ok", val |-> r, err |-> <<>>]
Err(e) == [tag |-> "Err", val |-> NoResult, err |-> e]
Pending == [tag |-> "Pending", val |-> NoResult, err |-> <<>>]

\* convert_file_impl, `match result`: an Err is handed on unchanged
PropagateResult(r) == r

\* convert_file_impl, `match result`: an Err becomes Ok(success = false)
JobBoundary(r) ==
    IF r.tag = "Ok" THEN Ok(r.val)
    ELSE Ok(ConversionResult(FALSE, None, None, Some(r.err)))

\* the message of the default match arm, without the tag
UnknownTypeErrorNoTag(tag) == <<"Unknown conversion type: ">>

\* format!("Unknown conversion type: {}", conversion_type)
UnknownTypeError(tag) == <<"Unknown conversion type: ", tag>>

\* ------------------------------------------------------------------------
\* Files
\* ------------------------------------------------------------------------
OutputNames == {"clip.mp4", "clip.mkv", "clip.webp"}

\* the `id` argument of convert_file
JobId(j) == ToString(j)

\* parent.join(output_name)
OutputPath(name) == [kind |-> "output", key |-> name]
\* format!("{}-0.log", output_str)
PassLog(name) == [kind |-> "passlog", key |-> name]
\* format!("{}-0.log.mbtree", output_str)
PassLogMbtree(name) == [kind |-> "mbtree", key |-> name]
\* temp_dir.join(format!("chapters_{}.txt", id))
ChapterFile(id) == [kind |-> "chapters", key |-> id]

AllPaths ==
    {OutputPath(n) : n \in OutputNames}
    \cup {PassLog(n) : n \in OutputNames}
    \cup {PassLogMbtree(n) : n \in OutputNames}
    \cup {ChapterFile(JobId(j)) : j \in Jobs}

\* the pass-statistics files convert_video_x264 removes, without the mbtree
PassLogFilesNoMbtree(name) == {PassLog(name)}

\* the pass-statistics files convert_video_x264 removes after pass 2
PassLogFiles(name) == {PassLog(name), PassLogMbtree(name)}

\* the files libx264 leaves under -passlogfile <output_str> after pass 1
X264StatsFiles(name) == {PassLog(name), PassLogMbtree(name)}

\* sizes an encoder run leaves at the output path
SizeSet == {150, 300, 500}

\* a measurement that never looks at the file
MetadataLenAlwaysZero(f, p) == 0

\* fs::metadata(&output_path).map(|m| m.len()).unwrap_or(0)
MetadataLenOrZero(f, p) == UnwrapOr(f[p], 0)

\* ------------------------------------------------------------------------
\* Prober (get_video_info)
\* ------------------------------------------------------------------------
VideoInfo(d, w, h) == [duration |-> d, width |-> w, height |-> h]
NoInfo == VideoInfo(0, 0, 0)

InfoOk(i) == [tag |-> "Ok", val |-> i, err |-> <<>>]
InfoErr(e) == [tag |-> "Err", val |-> NoInfo, err |-> e]

ProberRun(spawned, exit_ok, lines, d, w, h) ==
    [spawned |-> spawned, exit_ok |-> exit_ok, lines |-> lines,
     duration |-> d, width |-> w, height |-> h]

\* what one run of the prober can come to
ProberRuns ==
    {ProberRun(FALSE, FALSE, 0, 0, 0, 0),
     ProberRun(TRUE, FALSE, 0, 0, 0, 0),
     ProberRun(TRUE, TRUE, 0, 0, 0, 0),
     ProberRun(TRUE, TRUE, 1, 0, 1920, 1080),
     ProberRun(TRUE, TRUE, 2, 4, 1920, 1080)}

\* a prober that hands on whatever duration it has parsed
get_video_info_unchecked(run) ==
    IF ~run.spawned THEN InfoErr(<<"Failed to run ffprobe">>)
    ELSE IF ~run.exit_ok THEN InfoErr(<<"ffprobe failed">>)
    ELSE IF run.lines = 0 THEN InfoErr(<<"No video stream found">>)
    ELSE InfoOk(VideoInfo(run.duration, run.width, run.height))

get_video_info(run) ==
    IF ~run.spawned THEN InfoErr(<<"Failed to run ffprobe">>)
    ELSE IF ~run.exit_ok THEN InfoErr(<<"ffprobe failed">>)
    ELSE IF run.lines = 0 THEN InfoErr(<<"No video stream found">>)
    ELSE IF run.duration = 0
         THEN InfoErr(<<"Could not determine video duration">>)
    ELSE InfoOk(VideoInfo(run.duration, run.width, run.height))

\* ------------------------------------------------------------------------
\* Capability cache (NVENC_H264_AVAILABLE, NVENC_HEVC_AVAILABLE)
\* ------------------------------------------------------------------------
Kinds == {"h264_nvenc", "hevc_nvenc"}

\* every conversion type consulting the H.264 capability
KindOfH264Only(ty) == "h264_nvenc"

\* the capability a bitrate-capped conversion type consults
KindOf(ty) == IF ty = "mp4_hevc" THEN "hevc_nvenc" ELSE "h264_nvenc"

Listing(spawned, encoders) == [spawned |-> spawned, encoders |-> encoders]

\* what one run of `ffmpeg -hide_banner -encoders` can come to
Listings ==
    {Listing(FALSE, {})} \cup {Listing(TRUE, s) : s \in SUBSET Kinds}

\* match output { Ok(out) => stdout.contains(<encoder>), Err(_) => false }
ProbeAvailable(kind, listing) ==
    listing.spawned /\ kind \in listing.encoders

\* a set that replaces the value a slot holds
OnceLockOverwrite(slot, v) == Some(v)

\* OnceLock::set: the first value stays
OnceLockSet(slot, v) == IF slot = None THEN Some(v) ELSE slot

\* ------------------------------------------------------------------------
\* Bitrate and scale planning (convert_video_h264 / convert_video_hevc)
\* ------------------------------------------------------------------------
\* u32 and u64 arithmetic, with the words scaled down to U32Modulus and
\* U64Modulus values
U32Modulus == 1024
U64Modulus == 1048576
WrapU32(x) == x % U32Modulus
WrapU64(x) == x % U64Modulus

\* `x as u32`, `x as u64` on a float that holds a whole number: saturating
\* at both ends
AsU32(x) == IF x < 0 THEN 0 ELSE Min(x, U32Modulus - 1)
AsU64(x) == IF x < 0 THEN 0 ELSE Min(x, U64Modulus - 1)

\* let audio_bitrate = 128_000.0
AudioBitrate == 128000
\* .max(100_000.0)
MinVideoBitrate == 100000

\* video_bitrate_k without the floor of 100 kbps
VideoBitrateKNoFloor(target_bytes, dn, dd) ==
    IF dn = 0
    THEN IF target_bytes = 0 THEN MinVideoBitrate \div 1000
         ELSE U32Modulus - 1
    ELSE AsU32((8 * target_bytes * dd - AudioBitrate * dn) \div (1000 * dn))

\* video_bitrate_k for a duration of dn / dd seconds:
\*   total_bitrate = target_bytes as f64 * 8.0 / effective_duration
\*   video_bitrate = (total_bitrate - audio_bitrate).max(100_000.0)
\*   video_bitrate_k = (video_bitrate / 1000.0) as u32
\* a zero duration divides to +inf, or to NaN when target_bytes is zero too,
\* and f64::max then yields 100_000.0
VideoBitrateK(target_bytes, dn, dd) ==
    IF dn = 0
    THEN IF target_bytes = 0 THEN MinVideoBitrate \div 1000
         ELSE U32Modulus - 1
    ELSE IF 8 * target_bytes * dd <= (AudioBitrate + MinVideoBitrate) * dn
         THEN MinVideoBitrate \div 1000
         ELSE AsU32((8 * target_bytes * dd - AudioBitrate * dn)
                    \div (1000 * dn))

\* (video_bitrate_k as f64 * 1.5) as u32
MaxRate(k) == AsU32((k * 3) \div 2)
\* video_bitrate_k * 2, in u32
BufSize(k) == WrapU32(k * 2)

\* the -b:v, -maxrate and -bufsize arguments of an encoder invocation
RateArgs(k) == [b |-> k, maxrate |-> MaxRate(k), bufsize |-> BufSize(k)]
NoRateArgs == [b |-> 0, maxrate |-> 0, bufsize |-> 0]

\* a / b rounded to the nearest whole number
RoundDiv(a, b) == (2 * a + b) \div (2 * b)
\* the -2 of the scale filter: a * b / c, kept a multiple of 2
KeepAspectEven(a, b, c) == 2 * RoundDiv(a * b, 2 * c)
\* trunc(x / 2) * 2
TruncEven(x) == 2 * (x \div 2)

\* the frame the chosen scale_filter turns a w x h frame into
ScalePolicy(w, h) ==
    IF h > 1080
    THEN [width |-> KeepAspectEven(w, 1080, h), height |-> 1080]
    ELSE IF w > 1920
         THEN [width |-> 1920, height |-> KeepAspectEven(h, 1920, w)]
         ELSE [width |-> TruncEven(w), height |-> TruncEven(h)]

\* ------------------------------------------------------------------------
\* generate_chapter_metadata (times in the unit Millis halves)
\* ------------------------------------------------------------------------
\* (time * 1000.0) as u64: the fraction of a millisecond is cut off
Millis(t) == AsU64(t \div 2)

\* a marker put in front of the markers of its own time
InsertBeforeEqual(sorted, m) ==
    LET k == Cardinality({i \in DOMAIN sorted : sorted[i].time < m.time})
    IN SubSeq(sorted, 1, k) \o <<m>> \o SubSeq(sorted, k + 1, Len(sorted))

\* sort_by(partial_cmp) is stable: a marker goes behind the markers of its
\* own time that came before it
InsertByTime(sorted, m) ==
    LET k == Cardinality({i \in DOMAIN sorted : sorted[i].time <= m.time})
    IN SubSeq(sorted, 1, k) \o <<m>> \o SubSeq(sorted, k + 1, Len(sorted))

RECURSIVE SortByTime(_)
SortByTime(markers) ==
    IF markers = <<>> THEN <<>>
    ELSE InsertByTime(SortByTime(SubSeq(markers, 1, Len(markers) - 1)),
                      markers[Len(markers)])

\* marker.name.clone().unwrap_or_else(|| format!("Chapter {}", i + 1))
ChapterTitle(name, n) == IF IsSome(name) THEN name[1] ELSE <<"Chapter ", n>>

Chapter(start, end, title) == [START |-> start, END |-> end, title |-> title]

\* the [CHAPTER] blocks behind the ;FFMETADATA1 line; an empty marker list
\* gives the empty string
generate_chapter_metadata(markers, total_duration) ==
    LET sorted_markers == SortByTime(markers)
        n == Len(sorted_markers)
    IN [header |-> markers # <<>>,
        chapters |->
          [i \in 1..n |->
             Chapter(Millis(sorted_markers[i].time),
                     IF i + 1 <= n THEN Millis(sorted_markers[i + 1].time)
                     ELSE Millis(total_duration),
                     ChapterTitle(sorted_markers[i].name, i))]]

\* ------------------------------------------------------------------------
\* State
\* ------------------------------------------------------------------------
VARIABLES
    job,        \* per job: control point and the locals of convert_*
    mon,        \* per job: the encoder process run_ffmpeg_with_progress watches
    ev,         \* per job: the last event emitted under its id
    cnt,        \* per job: processes spawned and file operations made
    ret,        \* per job: what convert_file returned
    cache,      \* the two OnceLock<bool> slots
    capProbes,  \* per kind: runs of the encoder listing
    fs,         \* the files: path -> Option<size>
    trim,       \* adjust_markers_for_trim: arguments and value
    calc,       \* a planner function on its own: arguments and value
    pipe        \* an encoder process and its stdout and stderr pipes

vars == <<job, mon, ev, cnt, ret, cache, capProbes, fs, trim, calc, pipe>>

JobState(pc, req, duration, use_nvenc, meta, stage, tier, size) ==
    [pc |-> pc, req |-> req, duration |-> duration, use_nvenc |-> use_nvenc,
     metadata_path |-> meta, stage |-> stage, tier |-> tier,
     final_size |-> size, sizes |-> <<>>, tried |-> <<>>, fault |-> "none",
     probe |-> None, video_bitrate_k |-> 0,
     scale |-> [width |-> 0, height |-> 0], invocations |-> <<>>,
     out_tier |-> None, listing |-> None, metadata |-> None]

IdleJob == JobState("idle", NoRequest, 0, FALSE, None, "none", 0, 0)

IdleMon ==
    [phase |-> "none", lines |-> 0, last_time |-> None, monotone |-> TRUE,
     cb |-> None, final_cb |-> FALSE, status_ok |-> FALSE, alive |-> FALSE,
     overlap |-> FALSE]

NoEvents == [progress |-> 0, status |-> "none"]

NoCounts ==
    [prober |-> 0, encoder |-> 0, cap |-> 0, fs_write |-> 0, fs_delete |-> 0,
     delete_failed |-> FALSE]

NoTrim == [markers |-> <<>>, trim_start |-> None, trim_duration |-> None,
           out |-> <<>>, done |-> FALSE]

InitPipeline ==
    /\ job = [j \in Jobs |-> IdleJob]
    /\ mon = [j \in Jobs |-> IdleMon]
    /\ ev = [j \in Jobs |-> NoEvents]
    /\ cnt = [j \in Jobs |-> NoCounts]
    /\ ret = [j \in Jobs |-> Pending]
    /\ cache = [k \in Kinds |-> None]
    /\ capProbes = [k \in Kinds |-> 0]
    /\ fs = [p \in AllPaths |-> None]

\* no planner function is being applied on its own
NoCalc == [fn |-> "none", done |-> FALSE]

\* no encoder process is looked at with its pipes
NoPipe == [on |-> FALSE]

Init == InitPipeline /\ trim = NoTrim /\ calc = NoCalc /\ pipe = NoPipe

\* an emitter that labels every event analyzing
EmitAnalyzing(e, progress, status) ==
    [progress |-> progress, status |-> "analyzing"]

\* emit_progress(app, id, progress, status)
Emit(e, progress, status) == [progress |-> progress, status |-> status]

\* ------------------------------------------------------------------------
\* f64 arithmetic, in a binary floating-point format of FloatBits significant
\* bits and exponents up to FloatMaxExp (round to nearest, ties to even,
\* overflow to +inf); the unit is the smallest step the model tells apart
\* ------------------------------------------------------------------------
FloatBits == 3
FloatMaxExp == 2

RECURSIVE Pow2(_)
Pow2(n) == IF n = 0 THEN 1 ELSE 2 * Pow2(n - 1)

\* f64::MAX
FMax == (Pow2(FloatBits) - 1) * Pow2(FloatMaxExp)
\* +inf, above every finite value
FInf == Pow2(FloatBits + FloatMaxExp)

\* the exponent of the binade x lies in
ExpOf(x) ==
    CHOOSE e \in 0..(FloatMaxExp + 1) :
        /\ x < Pow2(FloatBits + e)
        /\ e = 0 \/ x >= Pow2(FloatBits + e - 1)

RoundF(x) ==
    IF x >= FInf THEN FInf
    ELSE LET e == ExpOf(x)
             q == x \div Pow2(e)
             r == x % Pow2(e)
             up == 2 * r > Pow2(e) \/ (2 * r = Pow2(e) /\ q % 2 = 1)
             v == (IF up THEN q + 1 ELSE q) * Pow2(e)
         IN IF v > FMax THEN FInf ELSE v

IsFloat(x) == x \in 0..FMax /\ RoundF(x) = x

\* a + b and a - b on f64 (a >= b for the difference)
FAdd(a, b) == RoundF(a + b)
FSub(a, b) == RoundF(a - b)

\* ------------------------------------------------------------------------
\* adjust_markers_for_trim
\* ------------------------------------------------------------------------
RECURSIVE FilterMap(_, _, _)
FilterMap(markers, start, end) ==
    IF markers = <<>> THEN <<>>
    ELSE LET m == Head(markers)
             rest == FilterMap(Tail(markers), start, end)
         IN IF m.time >= start /\ m.time <= end
            THEN <<Marker(m.id, FSub(m.time, start), m.name)>> \o rest
            ELSE rest

\* an adjustment that keeps every marker where it is
adjust_markers_keep_all(markers, trim_start, trim_duration) == markers

adjust_markers_for_trim(markers, trim_start, trim_duration) ==
    LET start == UnwrapOr(trim_start, 0)
        end == FAdd(UnwrapOr(trim_start, 0), UnwrapOr(trim_duration, FMax))
    IN FilterMap(markers, start, end)

\* ------------------------------------------------------------------------
\* convert_file / convert_file_impl and the convert_* functions
\* ------------------------------------------------------------------------
\* the function the match of convert_file_impl calls
ConvertFn(ty) ==
    CASE ty \in {"mp4", "mov", "mkv"} -> "convert_video_h264"
      [] ty = "mp4_hevc" -> "convert_video_hevc"
      [] ty = "webp" -> "convert_to_webp"
      [] ty = "gif" -> "convert_to_gif"
      [] OTHER -> "unknown"

\* a dispatch that passes the markers on for every type
MarkersArgAlways(r) == r.markers

\* the markers argument the match of convert_file_impl passes on
MarkersArg(r) == IF r.conversion_type = "mkv" THEN r.markers ELSE None

\* the dispatch of convert_file_impl; a known type starts its convert_*
\* function: emit_progress(0, analyzing), then the prober is run
convert_file(j, r) ==
    /\ job[j].pc = "idle"
    /\ IF ConvertFn(r.conversion_type) # "unknown"
       THEN /\ job' = [job EXCEPT ![j] = [IdleJob EXCEPT !.pc = "probe",
                                                        !.req = r]]
            /\ ev' = [ev EXCEPT ![j] = Emit(@, 0, "analyzing")]
            /\ cnt' = [cnt EXCEPT ![j].prober = @ + 1]
            /\ UNCHANGED ret
       ELSE /\ job' = [job EXCEPT ![j] = [IdleJob EXCEPT !.pc = "done",
                                                        !.req = r,
                                                        !.fault = "type"]]
            /\ ret' = [ret EXCEPT ![j] =
                         JobBoundary(Err(UnknownTypeError(r.conversion_type)))]
            /\ UNCHANGED <<ev, cnt>>
    /\ UNCHANGED <<mon, cache, capProbes, fs, trim, calc, pipe>>

\* get_video_info(...).await? and effective_duration
get_video_info_done(j) ==
    /\ job[j].pc = "probe"
    /\ \E run \in ProberRuns :
         LET info == get_video_info(run)
             r == job[j].req
         IN IF info.tag = "Err"
            THEN /\ ret' = [ret EXCEPT ![j] = JobBoundary(Err(info.err))]
                 /\ job' = [job EXCEPT ![j].pc = "done",
                                       ![j].probe = Some(run),
                                       ![j].fault = "prober"]
            ELSE /\ job' = [job EXCEPT
                        ![j].probe = Some(run),
                        ![j].duration =
                            UnwrapOr(r.trim_duration, info.val.duration),
                        ![j].pc = IF r.conversion_type \in TieredTypes
                                  THEN "tier_begin" ELSE "cap_get"]
                 /\ UNCHANGED ret
    /\ UNCHANGED <<mon, ev, cnt, cache, capProbes, fs, trim, calc, pipe>>

\* a lookup that never finds the slot set
CacheGetNever(slot) == None

\* NVENC_*_AVAILABLE.get()
CacheGet(slot) == slot

\* check_nvenc_{h264,hevc}_available up to the .await of the listing: the
\* cached value is returned, or the encoder listing is started
check_nvenc_available_get(j) ==
    /\ job[j].pc = "cap_get"
    /\ LET k == KindOf(job[j].req.conversion_type)
           got == CacheGet(cache[k])
       IN IF IsSome(got)
          THEN /\ job' = [job EXCEPT ![j].use_nvenc = got[1],
                                     ![j].pc = "prepare"]
               /\ UNCHANGED <<cnt, capProbes>>
          ELSE /\ job' = [job EXCEPT ![j].pc = "cap_wait"]
               /\ cnt' = [cnt EXCEPT ![j].cap = @ + 1]
               /\ capProbes' = [capProbes EXCEPT ![k] = @ + 1]
    /\ UNCHANGED <<mon, ev, ret, cache, fs, trim, calc, pipe>>

\* check_nvenc_{h264,hevc}_available from the end of the listing: `available`
\* is computed, offered to the slot, and returned
check_nvenc_available_set(j) ==
    /\ job[j].pc = "cap_wait"
    /\ \E listing \in Listings :
         LET k == KindOf(job[j].req.conversion_type)
             available == ProbeAvailable(k, listing)
         IN /\ cache' = [cache EXCEPT ![k] = OnceLockSet(@, available)]
            /\ job' = [job EXCEPT ![j].use_nvenc = available,
                                  ![j].listing = Some(listing),
                                  ![j].pc = "prepare"]
    /\ UNCHANGED <<mon, ev, cnt, ret, capProbes, fs, trim, calc, pipe>>

\* the encoder function convert_video_h264 / convert_video_hevc calls
EncoderFn(ty, use_nvenc) ==
    IF ty = "mp4_hevc"
    THEN IF use_nvenc THEN "convert_video_nvenc_hevc" ELSE "convert_video_x265"
    ELSE IF use_nvenc THEN "convert_video_nvenc" ELSE "convert_video_x264"

\* every encoder function running a single invocation
FirstStageSingle(fn) == "single"

\* the first run_ffmpeg_with_progress of an encoder function
FirstStage(fn) == IF fn = "convert_video_x264" THEN "pass1" ELSE "single"

\* convert_video_h264, `let metadata_path = ...`: the adjusted markers when a
\* sidecar is to be written, else the empty list
ChapterMarkers(r) ==
    LET mk == MarkersArg(r)
    IN IF ConvertFn(r.conversion_type) = "convert_video_h264"
          /\ IsSome(mk) /\ mk[1] # <<>> /\ EndsWithMkv(r.output_name)
       THEN adjust_markers_for_trim(mk[1], r.trim_start, r.trim_duration)
       ELSE <<>>

\* what fs::write can come to
WriteOutcomes == {"written", "failed", "failed_partial"}

\* convert_video_h264 / convert_video_hevc from the capability on: the
\* chapter sidecar (h264 only), then emit_progress(5, converting)
prepare(j) ==
    /\ job[j].pc = "prepare"
    /\ LET r == job[j].req
           info == get_video_info(job[j].probe[1]).val
           k == VideoBitrateK(r.target_bytes, job[j].duration, 1)
           scale == ScalePolicy(info.width, info.height)
           adjusted == ChapterMarkers(r)
           meta == ChapterFile(JobId(j))
           stage == FirstStage(EncoderFn(r.conversion_type, job[j].use_nvenc))
       IN IF adjusted # <<>>
          THEN \E w \in WriteOutcomes :
                 /\ cnt' = [cnt EXCEPT ![j].fs_write = @ + 1]
                 /\ fs' = [fs EXCEPT ![meta] =
                             IF w = "failed" THEN @ ELSE Some(Len(adjusted))]
                 /\ IF w = "written"
                    THEN /\ job' = [job EXCEPT ![j].metadata_path = Some(meta),
                                               ![j].metadata = Some(
                                                   generate_chapter_metadata(
                                                       adjusted,
                                                       job[j].duration)),
                                               ![j].video_bitrate_k = k,
                                               ![j].scale = scale,
                                               ![j].stage = stage,
                                               ![j].pc = "spawn"]
                         /\ ev' = [ev EXCEPT ![j] =
                                     Emit(@, 5 * Percent, "converting")]
                         /\ UNCHANGED ret
                    ELSE /\ job' = [job EXCEPT ![j].pc = "done",
                                               ![j].fault = "chapter_write"]
                         /\ ret' = [ret EXCEPT ![j] = JobBoundary(
                                Err(<<"Failed to write chapter metadata">>))]
                         /\ UNCHANGED ev
          ELSE /\ job' = [job EXCEPT ![j].video_bitrate_k = k,
                                     ![j].scale = scale,
                                     ![j].stage = stage, ![j].pc = "spawn"]
               /\ ev' = [ev EXCEPT ![j] = Emit(@, 5 * Percent, "converting")]
               /\ UNCHANGED <<cnt, fs, ret>>
    /\ UNCHANGED <<mon, cache, capProbes, trim, calc, pipe>>

\* ------------------------------------------------------------------------
\* run_ffmpeg_with_progress
\* ------------------------------------------------------------------------
\* the inputs and the trim arguments of the next invocation of job record
\* jb: the sidecar is a second -i except in pass 1, -ss carries trim_start
\* and -t carries trim_duration when they are given
TrimArgs(jb) ==
    [inputs |-> IF jb.stage # "pass1" /\ IsSome(jb.metadata_path)
                THEN 2 ELSE 1,
     ss |-> jb.req.trim_start,
     t |-> jb.req.trim_duration]

\* one encoder invocation: its stage, its rate arguments (none in the tiered
\* loop), its inputs and trim arguments, the duration handed to
\* run_ffmpeg_with_progress, and how it ended
Invocation(stage, tier, rate, args, duration, outcome) ==
    [stage |-> stage, tier |-> tier, rate |-> rate, inputs |-> args.inputs,
     ss |-> args.ss, t |-> args.t, duration |-> duration,
     outcome |-> outcome]

\* the arguments built for the next invocation of job record jb
NextInvocation(jb, outcome) ==
    Invocation(jb.stage, jb.tier,
               IF jb.stage = "tier" THEN NoRateArgs
               ELSE RateArgs(jb.video_bitrate_k),
               TrimArgs(jb), jb.duration, outcome)

\* cmd.spawn()
spawn(j) ==
    /\ job[j].pc = "spawn"
    /\ \E spawned \in BOOLEAN :
         IF spawned
         THEN /\ mon' = [mon EXCEPT ![j] =
                    [IdleMon EXCEPT !.phase = "reading",
                                    !.monotone = mon[j].monotone,
                                    !.alive = TRUE,
                                    !.overlap = mon[j].alive]]
              /\ cnt' = [cnt EXCEPT ![j].encoder = @ + 1]
              /\ job' = [job EXCEPT
                    ![j].pc = "read",
                    ![j].invocations =
                        Append(@, NextInvocation(job[j], "running"))]
              /\ UNCHANGED ret
         ELSE /\ ret' = [ret EXCEPT ![j] =
                           JobBoundary(Err(<<"Failed to spawn ffmpeg">>))]
              /\ cnt' = [cnt EXCEPT ![j].encoder = @ + 1]
              /\ job' = [job EXCEPT
                    ![j].pc = "done", ![j].fault = "spawn",
                    ![j].invocations =
                        Append(@, NextInvocation(job[j], "spawn_failed"))]
              /\ UNCHANGED mon
    /\ UNCHANGED <<ev, cache, capProbes, fs, trim, calc, pipe>>

\* one pass of the `while let` loop on a line carrying out_time_us:
\* on_progress(progress), which emits under the job's id
read_line(j) ==
    /\ job[j].pc = "read"
    /\ mon[j].lines < MaxLines
    /\ \E t \in 0..MaxTime :
         LET p == LocalProgress(t, job[j].duration)
         IN /\ mon' = [mon EXCEPT
                  ![j].lines = @ + 1,
                  ![j].last_time = Some(t),
                  ![j].monotone = @ /\ (mon[j].last_time = None
                                        \/ t >= mon[j].last_time[1]),
                  ![j].cb = Some(p)]
            /\ ev' = [ev EXCEPT ![j] =
                  Emit(@, MapProgress(job[j].stage, job[j].tier, p),
                       "converting")]
    /\ UNCHANGED <<job, cnt, ret, cache, capProbes, fs, trim, calc, pipe>>

\* what child.wait().await can come to
WaitOutcomes == {"exit_ok", "exit_failed", "wait_error"}

\* what an encoder process has left at its output path when it is gone
Written == {None} \cup {Some(s) : s \in SizeSet}

\* the files after an encoder process of the given stage has gone
AfterEncoder(f, stage, name, exited_ok, written) ==
    IF stage = "pass1"
    THEN IF exited_ok
         THEN [p \in AllPaths |->
                 IF p \in X264StatsFiles(name) THEN Some(1) ELSE f[p]]
         ELSE f
    ELSE IF written = None THEN f
         ELSE [f EXCEPT ![OutputPath(name)] = written]

\* a run_ffmpeg_with_progress that never returns to its caller
AfterStageNoReturn(stage) == "read"

\* the control point after a successful run_ffmpeg_with_progress
AfterStage(stage) ==
    CASE stage = "pass1" -> "spawn"
      [] stage = "pass2" -> "cleanup_logs"
      [] stage = "single" -> "finish"
      [] stage = "tier" -> "measure"

\* a child.wait().await that comes back with the child still running
NeverReaped(o) == FALSE

\* child.wait().await has seen the child exit
Reaped(o) == o # "wait_error"

\* an exit status that is taken for a success whatever it is
AnyStatusSuccess(o) == TRUE

\* status.success()
StatusSuccess(o) == o = "exit_ok"

\* the invocations with the last one ended
EndInvocation(invs, o) == [invs EXCEPT ![Len(invs)].outcome = o]

\* end of the progress stream, child.wait(), and on success on_progress(100)
wait(j) ==
    /\ job[j].pc = "read"
    /\ \E o \in WaitOutcomes, written \in Written :
         LET stage == job[j].stage
             name == job[j].req.output_name
             wrote == stage # "pass1" /\ written # None
             invs == EndInvocation(job[j].invocations, o)
             out_tier == IF wrote THEN Some(job[j].tier) ELSE job[j].out_tier
         IN /\ fs' = AfterEncoder(fs, stage, name, o = "exit_ok", written)
            /\ IF StatusSuccess(o)
               THEN /\ mon' = [mon EXCEPT ![j].phase = "exited",
                                          ![j].alive = @ /\ ~Reaped(o),
                                          ![j].lines = 0,
                                          ![j].last_time = None,
                                          ![j].status_ok = TRUE,
                                          ![j].cb = Some(100 * Percent),
                                          ![j].final_cb = TRUE]
                    /\ ev' = [ev EXCEPT ![j] =
                          Emit(@, MapProgress(stage, job[j].tier,
                                              100 * Percent), "converting")]
                    /\ job' = [job EXCEPT
                          ![j].pc = AfterStage(stage),
                          ![j].invocations = invs,
                          ![j].out_tier = out_tier,
                          ![j].stage = IF stage = "pass1" THEN "pass2"
                                       ELSE stage]
                    /\ UNCHANGED ret
               ELSE /\ mon' = [mon EXCEPT ![j].phase = "exited",
                                          ![j].alive = @ /\ ~Reaped(o),
                                          ![j].lines = 0,
                                          ![j].last_time = None,
                                          ![j].status_ok = FALSE]
                    /\ ret' = [ret EXCEPT ![j] = JobBoundary(Err(
                          IF o = "wait_error" THEN <<"FFmpeg process error">>
                          ELSE <<"FFmpeg encoding failed">>))]
                    /\ job' = [job EXCEPT ![j].pc = "done",
                                          ![j].invocations = invs,
                                          ![j].out_tier = out_tier,
                                          ![j].fault = "encoder"]
                    /\ UNCHANGED ev
    /\ UNCHANGED <<cnt, cache, capProbes, trim, calc, pipe>>

\* ------------------------------------------------------------------------
\* After the encoder: cleanup, final size, result
\* ------------------------------------------------------------------------
\* the files of a set that exist: the ones whose fs::remove_file can fail
\* with the file left in place
Existing(f, paths) == {p \in paths : f[p] # None}

\* let _ = fs::remove_file(p) for every p of paths, `failing` left in place
RemoveFiles(f, paths, failing) ==
    [p \in AllPaths |-> IF p \in paths \ failing THEN None ELSE f[p]]

\* convert_video_x264 after pass 2: the pass log files are removed
cleanup_logs(j) ==
    /\ job[j].pc = "cleanup_logs"
    /\ LET logs == PassLogFiles(job[j].req.output_name)
       IN \E failing \in SUBSET Existing(fs, logs) :
            /\ fs' = RemoveFiles(fs, logs, failing)
            /\ cnt' = [cnt EXCEPT
                  ![j].fs_delete = @ + Cardinality(logs),
                  ![j].delete_failed = @ \/ failing # {}]
    /\ job' = [job EXCEPT ![j].pc = "finish"]
    /\ UNCHANGED <<mon, ev, ret, cache, capProbes, trim, calc, pipe>>

\* convert_video_h264 / convert_video_hevc after the encoder function: the
\* sidecar is removed, the output is measured, emit_progress(100, completed)
finish(j) ==
    /\ job[j].pc = "finish"
    /\ LET out == OutputPath(job[j].req.output_name)
           meta == IF IsSome(job[j].metadata_path)
                   THEN {job[j].metadata_path[1]} ELSE {}
       IN \E failing \in SUBSET Existing(fs, meta) :
            /\ fs' = RemoveFiles(fs, meta, failing)
            /\ cnt' = [cnt EXCEPT
                  ![j].fs_delete = @ + Cardinality(meta),
                  ![j].delete_failed = @ \/ failing # {}]
            /\ job' = [job EXCEPT ![j].pc = "done",
                                  ![j].final_size = MetadataLenOrZero(fs, out)]
            /\ ret' = [ret EXCEPT ![j] = JobBoundary(Ok(
                  ConversionResult(TRUE, Some(out),
                                   Some(MetadataLenOrZero(fs, out)), None)))]
    /\ ev' = [ev EXCEPT ![j] = Emit(@, 100 * Percent, "completed")]
    /\ UNCHANGED <<mon, cache, capProbes, trim, calc, pipe>>

\* ------------------------------------------------------------------------
\* The tiered loop of convert_to_webp / convert_to_gif
\* ------------------------------------------------------------------------
\* the early stop taken only below the target itself
WithinTargetStrict(size, target) == size <= target

\* final_size <= target_bytes * 11 / 10
WithinTarget(size, target) == size <= WrapU64(target * 11) \div 10

\* top of the loop body: emit_progress(progress_base, converting) and
\* let _ = fs::remove_file(&output_path)
tier_begin(j) ==
    /\ job[j].pc = "tier_begin"
    /\ LET out == {OutputPath(job[j].req.output_name)}
       IN \E failing \in SUBSET Existing(fs, out) :
            /\ fs' = RemoveFiles(fs, out, failing)
            /\ cnt' = [cnt EXCEPT
                  ![j].fs_delete = @ + 1,
                  ![j].delete_failed = @ \/ failing # {}]
            /\ job' = [job EXCEPT
                  ![j].stage = "tier", ![j].pc = "spawn",
                  ![j].out_tier = IF failing = {} THEN None ELSE @,
                  ![j].tried = Append(@, job[j].tier)]
    /\ ev' = [ev EXCEPT ![j] = Emit(@, TierBase(job[j].tier), "converting")]
    /\ UNCHANGED <<mon, ret, cache, capProbes, trim, calc, pipe>>

\* end of the loop body: final_size is measured; break, or the next tier
measure(j) ==
    /\ job[j].pc = "measure"
    /\ LET size == MetadataLenOrZero(fs, OutputPath(job[j].req.output_name))
           last == job[j].tier + 1 = NumTiers
       IN job' = [job EXCEPT
             ![j].final_size = size,
             ![j].sizes = Append(@, size),
             ![j].tier = IF WithinTarget(size, job[j].req.target_bytes)
                            \/ last
                         THEN @ ELSE @ + 1,
             ![j].pc = IF WithinTarget(size, job[j].req.target_bytes)
                          \/ last
                       THEN "tier_end" ELSE "tier_begin"]
    /\ UNCHANGED <<mon, ev, cnt, ret, cache, capProbes, fs, trim, calc, pipe>>

\* after the loop: emit_progress(100, completed) and the result
tier_end(j) ==
    /\ job[j].pc = "tier_end"
    /\ ev' = [ev EXCEPT ![j] = Emit(@, 100 * Percent, "completed")]
    /\ ret' = [ret EXCEPT ![j] = JobBoundary(Ok(
          ConversionResult(TRUE, Some(OutputPath(job[j].req.output_name)),
                           Some(job[j].final_size), None)))]
    /\ job' = [job EXCEPT ![j].pc = "done"]
    /\ UNCHANGED <<mon, cnt, cache, capProbes, fs, trim, calc, pipe>>

\* ------------------------------------------------------------------------
\* Specifications
\* ------------------------------------------------------------------------
\* what a job does once its request is in
JobStep(j) ==
    \/ get_video_info_done(j)
    \/ check_nvenc_available_get(j)
    \/ check_nvenc_available_set(j)
    \/ prepare(j)
    \/ spawn(j)
    \/ read_line(j)
    \/ wait(j)
    \/ cleanup_logs(j)
    \/ finish(j)
    \/ tier_begin(j)
    \/ measure(j)
    \/ tier_end(j)

\* one job, on any request of Requests
Next ==
    \/ \E r \in Requests : convert_file(1, r)
    \/ JobStep(1)

Spec == Init /\ [][Next]_vars

\* one request of each kind
LiveRequests ==
    {MkRequest("avi", "clip.mp4", 200, None, None, None),
     MkRequest("mp4", "clip.mp4", 200, None, None, None),
     MkRequest("mkv", "clip.mkv", 200, Some(1), Some(2),
               Some(<<Marker(1, 1, None)>>)),
     MkRequest("mp4_hevc", "clip.mp4", 200, None, Some(2), None),
     MkRequest("webp", "clip.webp", 137, None, None, None),
     MkRequest("gif", "clip.webp", 200, None, Some(0), None)}

NextLive ==
    \/ \E r \in LiveRequests : convert_file(1, r)
    \/ JobStep(1)

\* one job under a runtime that keeps polling it, with a prober and encoder
\* processes that exit
SpecLive ==
    /\ Init /\ [][NextLive]_vars
    /\ WF_vars(JobStep(1))
    /\ WF_vars(get_video_info_done(1))
    /\ WF_vars(wait(1))

\* the requests of the jobs that query the capability cache together
CapRequests ==
    {MkRequest(ty, "clip.mp4", 200, None, None, None) :
        ty \in {"mp4", "mp4_hevc", "webp"}}

\* job j is inside check_nvenc_*_available for kind k, its listing running
QueryOpen(j, k) ==
    job[j].pc = "cap_wait" /\ KindOf(job[j].req.conversion_type) = k

\* no other job is inside the capability check j is about to enter
NoOverlap(j) ==
    \A i \in Jobs \ {j} :
        ~QueryOpen(i, KindOf(job[j].req.conversion_type))

\* several jobs up to the return of their capability check, any interleaving
NextCap ==
    \E j \in Jobs :
        \/ \E r \in CapRequests : convert_file(j, r)
        \/ get_video_info_done(j)
        \/ check_nvenc_available_get(j)
        \/ check_nvenc_available_set(j)

SpecCap == Init /\ [][NextCap]_vars

\* the same jobs, the capability checks of one kind one after the other
NextCapSeq ==
    \E j \in Jobs :
        \/ \E r \in CapRequests : convert_file(j, r)
        \/ get_video_info_done(j)
        \/ NoOverlap(j) /\ check_nvenc_available_get(j)
        \/ check_nvenc_available_set(j)

SpecCapSeq == Init /\ [][NextCapSeq]_vars

\* the f64 values of the model
Floats == {x \in 0..FMax : IsFloat(x)}

\* marker lists of up to MaxMarkers markers, ids in list order
RECURSIVE MarkerSeqs(_)
MarkerSeqs(n) ==
    IF n = 0 THEN {<<>>}
    ELSE MarkerSeqs(n - 1)
         \cup {Append(ms, Marker(n, t, None)) :
                 ms \in {x \in MarkerSeqs(n - 1) : Len(x) = n - 1},
                 t \in Floats}

OptionalFloats == {None} \cup {Some(x) : x \in Floats}

\* adjust_markers_for_trim on its own: any marker list, any trim window
InitTrim ==
    /\ InitPipeline
    /\ \E ms \in MarkerSeqs(MaxMarkers), ts \in OptionalFloats,
          td \in OptionalFloats :
         trim = [markers |-> ms, trim_start |-> ts, trim_duration |-> td,
                 out |-> <<>>, done |-> FALSE]
    /\ calc = NoCalc
    /\ pipe = NoPipe

adjust(t) ==
    /\ ~t.done
    /\ trim' = [t EXCEPT
          !.out = adjust_markers_for_trim(t.markers, t.trim_start,
                                          t.trim_duration),
          !.done = TRUE]
    /\ UNCHANGED <<job, mon, ev, cnt, ret, cache, capProbes, fs, calc, pipe>>

NextTrim == adjust(trim)

SpecTrim == InitTrim /\ [][NextTrim]_vars

\* ------------------------------------------------------------------------
\* Properties of one job (Spec)
\* ------------------------------------------------------------------------
Done(j) == job[j].pc = "done"
Succeeded(j) == Done(j) /\ ret[j].tag = "Ok" /\ ret[j].val.success
BitrateCapped(j) ==
    ConvertFn(job[j].req.conversion_type)
        \in {"convert_video_h264", "convert_video_hevc"}
Tiered(j) == job[j].req.conversion_type \in TieredTypes

\* C1: convert_file never returns Err: a job that has ended returned Ok, and
\* it failed somewhere (unknown type, prober, sidecar write, encoder spawn,
\* encoder exit) exactly when the result has success = false, which then
\* carries an error message and neither an output path nor a size; nothing
\* is returned before the job has ended.
C1_FailureIsOkResult ==
    \A j \in Jobs :
        /\ ret[j].tag # "Err"
        /\ Done(j) <=> ret[j].tag = "Ok"
        /\ Done(j) =>
             /\ (job[j].fault # "none") <=> ~ret[j].val.success
             /\ ~ret[j].val.success =>
                  /\ IsSome(ret[j].val.error)
                  /\ ret[j].val.output_path = None
                  /\ ret[j].val.output_size = None

C1_Witness ==
    \E j \in Jobs :
        /\ Done(j) /\ job[j].fault = "encoder" /\ job[j].stage = "pass2"
        /\ ret[j].tag = "Ok" /\ ~ret[j].val.success

\* the tag occurs in the message
Contains(msg, tag) == \E i \in DOMAIN msg : msg[i] = tag

\* C2: a request with an unrecognized conversion type ends with success =
\* false and an error message containing the tag, having run no prober, no
\* encoder and no capability probe, written and deleted no file, and emitted
\* no progress event.
C2_UnknownTypeRejected ==
    \A j \in Jobs :
        (job[j].pc # "idle" /\ job[j].req.conversion_type \notin KnownTypes)
        => /\ Done(j)
           /\ ret[j].tag = "Ok" /\ ~ret[j].val.success
           /\ IsSome(ret[j].val.error)
           /\ Contains(ret[j].val.error[1], job[j].req.conversion_type)
           /\ cnt[j] = NoCounts
           /\ ev[j].status = "none"
           /\ mon[j].phase = "none"
           /\ \A p \in AllPaths : fs[p] = None
           /\ \A k \in Kinds : capProbes[k] = 0 /\ cache[k] = None

C2_Witness ==
    \E j \in Jobs :
        /\ Done(j) /\ job[j].req.conversion_type = "MP4"
        /\ ~ret[j].val.success

\* the claim's test: size within 110% of the target
Fits(size, target) == 10 * size <= 11 * target

StubSizes == <<500, 300, 150, 80>>

\* C3: a tiered job that succeeded tried the tiers 0, 1, ..., s in this
\* order, measured one size per tier, and returns tier s, where s is the
\* lowest index whose measured size is within 110% of target_bytes, or the
\* last tier when there is none; on the sizes 500, 300, 150, 80 and a target
\* of 200, s = 2.
C3_FirstFittingTier ==
    \A j \in Jobs :
        (Succeeded(j) /\ Tiered(j)) =>
            LET s == job[j].tier
                sizes == job[j].sizes
                target == job[j].req.target_bytes
            IN /\ s \in 0..(NumTiers - 1)
               /\ job[j].tried = [i \in 1..(s + 1) |-> i - 1]
               /\ Len(sizes) = s + 1
               /\ cnt[j].encoder = s + 1
               /\ \A i \in 1..s : ~Fits(sizes[i], target)
               /\ Fits(sizes[s + 1], target) \/ s = NumTiers - 1
               /\ ret[j].val.output_size = Some(sizes[s + 1])
               /\ (target = 200
                   /\ \A i \in 1..Len(sizes) :
                        i <= Len(StubSizes) /\ sizes[i] = StubSizes[i])
                  => s = 2

C3_Witness ==
    \E j \in Jobs :
        /\ Succeeded(j) /\ Tiered(j)
        /\ job[j].req.target_bytes = 200
        /\ job[j].sizes = <<500, 300, 150>>
        /\ job[j].tier = 2

\* C4 as stated: a bitrate-capped job that succeeded ran one encoder
\* invocation when its hardware capability is available and two when not.
C4_OneOrTwoInvocations ==
    \A j \in Jobs :
        (Succeeded(j) /\ BitrateCapped(j)) =>
            cnt[j].encoder = IF job[j].use_nvenc THEN 1 ELSE 2

\* C4, amended: an H.264 job (mp4, mov, mkv) that succeeded ran one encoder
\* invocation when hardware H.264 is available and two (pass 1, pass 2) when
\* not; an HEVC job that succeeded ran one invocation in either case.
C4_TwoPassOnlyForX264 ==
    \A j \in Jobs :
        (Succeeded(j) /\ BitrateCapped(j)) =>
            /\ cache[KindOf(job[j].req.conversion_type)]
                 = Some(job[j].use_nvenc)
            /\ cnt[j].encoder =
                 IF job[j].req.conversion_type \in H264Types
                    /\ ~job[j].use_nvenc
                 THEN 2 ELSE 1
            /\ cnt[j].encoder = 2 => job[j].stage = "pass2"

C4_Witness ==
    \E j \in Jobs :
        /\ Succeeded(j) /\ job[j].req.conversion_type = "mov"
        /\ ~job[j].use_nvenc /\ cnt[j].encoder = 2

\* the side files of a job
SideFiles(j) ==
    PassLogFiles(job[j].req.output_name)
    \cup X264StatsFiles(job[j].req.output_name)
    \cup {ChapterFile(JobId(j))}

\* C5: when a bitrate-capped job has returned success = true and no deletion
\* failed, neither pass-statistics file and no chapter sidecar of the job is
\* left.
C5_NoSideFilesAfterSuccess ==
    \A j \in Jobs :
        (Succeeded(j) /\ BitrateCapped(j) /\ ~cnt[j].delete_failed) =>
            \A p \in SideFiles(j) : fs[p] = None

C5_Witness ==
    \E j \in Jobs :
        /\ Succeeded(j) /\ cnt[j].encoder = 2 /\ ~cnt[j].delete_failed
        /\ IsSome(job[j].metadata_path)
        /\ cnt[j].fs_delete = 3

\* C8: as long as every encoder invocation of a job has reported
\* non-decreasing output times, each event emitted under the job's id carries
\* a progress value in [0, 100] that is not below the one emitted before it,
\* from the analyzing event through every pass and tier to the terminal
\* event.
C8_ProgressNonDecreasing ==
    [][\A j \in Jobs :
          mon'[j].monotone =>
              /\ ev'[j].progress >= ev[j].progress
              /\ ev'[j].progress \in 0..(100 * Percent)]_vars

C8_Witness ==
    \E j \in Jobs :
        /\ job[j].stage = "pass2" /\ job[j].pc = "read"
        /\ mon[j].lines = 2 /\ mon[j].monotone
        /\ mon[j].last_time = Some(1)
        /\ ev[j].progress > 50 * Percent
        /\ ev[j].progress < 100 * Percent

\* C9 as stated: once run_ffmpeg_with_progress has returned, its last
\* callback was made with exactly 100 if and only if the process exited
\* successfully.
C9_LastCallbackIs100IffSuccess ==
    \A j \in Jobs :
        mon[j].phase = "exited" =>
            (mon[j].cb = Some(100 * Percent) <=> mon[j].status_ok)

\* C9, amended: run_ffmpeg_with_progress makes a callback after the stream
\* has ended if and only if the process exited successfully, and that
\* callback is made with exactly 100; when the process did not exit
\* successfully the job has failed with nothing called back after the end of
\* the stream (the last callback of the stream may itself have been 100);
\* every callback made while the stream is read is at most 100.
C9_FinalCallbackIffSuccess ==
    \A j \in Jobs :
        /\ mon[j].phase = "exited" =>
             /\ mon[j].final_cb <=> mon[j].status_ok
             /\ mon[j].final_cb => mon[j].cb = Some(100 * Percent)
             /\ ~mon[j].status_ok =>
                  /\ Done(j) /\ job[j].fault = "encoder"
                  /\ ~ret[j].val.success
        /\ mon[j].phase = "reading" =>
             /\ ~mon[j].final_cb
             /\ IsSome(mon[j].cb) => mon[j].cb[1] \in 0..(100 * Percent)

C9_Witness ==
    \E j \in Jobs :
        /\ mon[j].phase = "exited" /\ ~mon[j].status_ok
        /\ mon[j].cb = Some(100 * Percent) /\ ~mon[j].final_cb
        /\ job[j].duration = 2

\* ------------------------------------------------------------------------
\* Properties of the capability cache (SpecCapSeq, SpecCap)
\* ------------------------------------------------------------------------
\* the jobs that have entered the capability check of kind k
Queried(k) ==
    {j \in Jobs : /\ job[j].pc \in {"cap_wait", "prepare"}
                  /\ KindOf(job[j].req.conversion_type) = k}

\* the jobs to which the capability check of kind k has returned
Answered(k) == {j \in Queried(k) : job[j].pc = "prepare"}

\* C6: under capability checks that do not overlap, each kind's encoder
\* listing is run exactly once, by the first check of that kind: every other
\* check runs no listing and returns the value held by the slot.
C6_OneProbePerKind ==
    \A k \in Kinds :
        /\ capProbes[k] = IF Queried(k) = {} THEN 0 ELSE 1
        /\ Cardinality({j \in Queried(k) : cnt[j].cap = 1}) = capProbes[k]
        /\ \A j \in Queried(k) : cnt[j].cap <= 1
        /\ \A j \in Answered(k) : cache[k] = Some(job[j].use_nvenc)

C6_Witness ==
    \E k \in Kinds :
        /\ Cardinality(Answered(k)) >= 2
        /\ \E j \in Answered(k) : cnt[j].cap = 0
        /\ capProbes[k] = 1

\* C7: under overlapping capability checks, every check of a kind returns
\* the value the slot of that kind holds.
C7_ChecksReturnCachedValue ==
    \A k \in Kinds :
        \A j \in Answered(k) : cache[k] = Some(job[j].use_nvenc)

\* ------------------------------------------------------------------------
\* Properties of adjust_markers_for_trim (SpecTrim)
\* ------------------------------------------------------------------------
\* the markers of the window [start, start + duration] of the reals, an
\* absent duration leaving the window open, each at time - start
RECURSIVE WindowOf(_, _, _)
WindowOf(markers, start, duration) ==
    IF markers = <<>> THEN <<>>
    ELSE LET m == Head(markers)
             rest == WindowOf(Tail(markers), start, duration)
         IN IF /\ start <= m.time
               /\ duration = None \/ m.time <= start + duration[1]
            THEN <<Marker(m.id, FSub(m.time, start), m.name)>> \o rest
            ELSE rest

\* C10: adjust_markers_for_trim keeps exactly the markers with trim_start <=
\* time <= trim_start + trim_duration (absent start 0, absent duration
\* unbounded), each at time - trim_start, so that every marker of the value
\* has 0 <= time <= trim_duration; a marker at trim_start + trim_duration is
\* kept at time trim_duration and a marker before trim_start is dropped.
C10_AdjustedWithinWindow ==
    trim.done =>
        LET start == UnwrapOr(trim.trim_start, 0)
        IN /\ trim.out = WindowOf(trim.markers, start, trim.trim_duration)
           /\ \A i \in DOMAIN trim.out :
                /\ trim.out[i].time >= 0
                /\ IsSome(trim.trim_duration)
                     => trim.out[i].time <= trim.trim_duration[1]

\* ------------------------------------------------------------------------
\* generate_chapter_metadata on its own (times here are in half milliseconds)
\* ------------------------------------------------------------------------
\* markers in a list handed to generate_chapter_metadata on its own
MaxChapters == 3

\* marker times: 0.5 ms, 2 s, 5 s, 5.0005 s
ChapterTimes == {1, 4000, 10000, 10001}
ChapterNames == {None, Some("intro")}

\* marker lists of up to n markers, ids in list order
RECURSIVE ChapterLists(_)
ChapterLists(n) ==
    IF n = 0 THEN {<<>>}
    ELSE ChapterLists(n - 1)
         \cup {Append(ms, Marker(n, t, nm)) :
                 ms \in {x \in ChapterLists(n - 1) : Len(x) = n - 1},
                 t \in ChapterTimes, nm \in ChapterNames}

\* total durations: 0, 10 s, 10.0005 s
ChapterTotals == {0, 20000, 20001}

InitChapters ==
    /\ InitPipeline
    /\ trim = NoTrim
    /\ pipe = NoPipe
    /\ \E ms \in ChapterLists(MaxChapters), total \in ChapterTotals :
         calc = [fn |-> "generate_chapter_metadata", done |-> FALSE,
                 markers |-> ms, total_duration |-> total,
                 out |-> [header |-> FALSE, chapters |-> <<>>]]

build_chapters(c) ==
    /\ c.fn = "generate_chapter_metadata" /\ ~c.done
    /\ calc' = [c EXCEPT
          !.out = generate_chapter_metadata(c.markers, c.total_duration),
          !.done = TRUE]
    /\ UNCHANGED <<job, mon, ev, cnt, ret, cache, capProbes, fs, trim, pipe>>

NextChapters == build_chapters(calc)

SpecChapters == InitChapters /\ [][NextChapters]_vars

\* ------------------------------------------------------------------------
\* Properties of generate_chapter_metadata (SpecChapters)
\* ------------------------------------------------------------------------
\* the 1-based place of marker k in ascending time order, equal times in
\* input order
Rank(markers, k) ==
    1 + Cardinality({i \in DOMAIN markers :
                        \/ markers[i].time < markers[k].time
                        \/ markers[i].time = markers[k].time /\ i < k})

\* whole milliseconds of a time given in half milliseconds
WholeMillis(t) == (t - (t % 2)) \div 2

\* C11: for a non-empty marker list generate_chapter_metadata gives one
\* chapter per marker, in ascending time order with equal times in input
\* order: the chapter of a marker has START at the marker's time in
\* milliseconds, END at the START of the chapter behind it, or at the total
\* duration in milliseconds when it is the last, and as title the marker's
\* name, or "Chapter n" with n its 1-based place; the times 2, 5, 5 s with a
\* total of 10 s give (2000, 5000), (5000, 5000), (5000, 10000).
C11_ChaptersSortedByTime ==
    (calc.fn = "generate_chapter_metadata" /\ calc.done
     /\ calc.markers # <<>>) =>
        LET ms == calc.markers
            ch == calc.out.chapters
            n == Len(ms)
        IN /\ calc.out.header
           /\ Len(ch) = n
           /\ \A k \in 1..n :
                LET r == Rank(ms, k)
                IN /\ ch[r].START = WholeMillis(ms[k].time)
                   /\ ch[r].END = IF r < n THEN ch[r + 1].START
                                  ELSE WholeMillis(calc.total_duration)
                   /\ ch[r].title = IF IsSome(ms[k].name) THEN ms[k].name[1]
                                    ELSE <<"Chapter ", r>>
           /\ \A i \in 1..(n - 1) : ch[i].START <= ch[i + 1].START
           /\ ([i \in 1..n |-> ms[i].time] = <<4000, 10000, 10000>>
               /\ calc.total_duration = 20000)
              => [i \in 1..n |-> <<ch[i].START, ch[i].END>>]
                   = <<<<2000, 5000>>, <<5000, 5000>>, <<5000, 10000>>>>

C11_Witness ==
    /\ calc.fn = "generate_chapter_metadata" /\ calc.done
    /\ [i \in 1..Len(calc.markers) |-> calc.markers[i].time]
         = <<10000, 4000, 10000>>
    /\ calc.markers[1].name = Some("intro")
    /\ calc.markers[3].name = None
    /\ calc.total_duration = 20000
    /\ [i \in 1..3 |-> calc.out.chapters[i].title]
         = <<<<"Chapter ", 1>>, "intro", <<"Chapter ", 3>>>>

\* ------------------------------------------------------------------------
\* The planner functions on their own (SpecPlanner)
\* ------------------------------------------------------------------------
\* largest numerator of an effective duration
MaxDuration == 3

\* target_bytes: none, one byte, around the floor at one second, a megabyte,
\* the largest word
PlanTargets == {0, 1, 28500, 28501, 100000, 1000000, U64Modulus - 1}
\* durations are dn / dd seconds
PlanDenominators == {1, 10}

\* source frames
PlanWidths == {2, 641, 1280, 1919, 1920, 1921, 2560, 3840}
PlanHeights == {2, 361, 720, 1079, 1080, 1081, 1600, 2160}

\* measured sizes and targets of the early-stop test, up to the largest word
StopSizes == {0, 1, 110, 111, 95326, U64Modulus - 1}
StopTargets ==
    {0, 1, 100, 101, U64Modulus \div 11, U64Modulus \div 11 + 1,
     U64Modulus - 1}

InitPlanner ==
    /\ InitPipeline
    /\ trim = NoTrim
    /\ pipe = NoPipe
    /\ \/ \E t \in PlanTargets, dn \in 0..MaxDuration,
             dd \in PlanDenominators :
            calc = [fn |-> "video_bitrate_k", done |-> FALSE,
                    target_bytes |-> t, dn |-> dn, dd |-> dd,
                    args |-> NoRateArgs]
       \/ \E w \in PlanWidths, h \in PlanHeights :
            calc = [fn |-> "scale_filter", done |-> FALSE,
                    width |-> w, height |-> h,
                    out |-> [width |-> 0, height |-> 0]]
       \/ \E size \in StopSizes, t \in StopTargets :
            calc = [fn |-> "early_stop", done |-> FALSE,
                    final_size |-> size, target_bytes |-> t, stop |-> FALSE]

plan_bitrate(c) ==
    /\ c.fn = "video_bitrate_k" /\ ~c.done
    /\ calc' = [c EXCEPT
          !.args = RateArgs(VideoBitrateK(c.target_bytes, c.dn, c.dd)),
          !.done = TRUE]
    /\ UNCHANGED <<job, mon, ev, cnt, ret, cache, capProbes, fs, trim, pipe>>

plan_scale(c) ==
    /\ c.fn = "scale_filter" /\ ~c.done
    /\ calc' = [c EXCEPT !.out = ScalePolicy(c.width, c.height),
                         !.done = TRUE]
    /\ UNCHANGED <<job, mon, ev, cnt, ret, cache, capProbes, fs, trim, pipe>>

early_stop(c) ==
    /\ c.fn = "early_stop" /\ ~c.done
    /\ calc' = [c EXCEPT !.stop = WithinTarget(c.final_size, c.target_bytes),
                         !.done = TRUE]
    /\ UNCHANGED <<job, mon, ev, cnt, ret, cache, capProbes, fs, trim, pipe>>

NextPlanner ==
    \/ plan_bitrate(calc)
    \/ plan_scale(calc)
    \/ early_stop(calc)

SpecPlanner == InitPlanner /\ [][NextPlanner]_vars

\* ------------------------------------------------------------------------
\* Properties of the planner functions (SpecPlanner)
\* ------------------------------------------------------------------------
\* C12: for every target_bytes and every effective duration above zero the
\* video bitrate handed to the encoder is at least 100 kbps, and whenever
\* the bit budget target_bytes * 8 / duration is above 100 kbps + 128 kbps,
\* the video bitrate plus 128 kbps of audio is within the bit budget.
C12_BitrateFloorAndBudget ==
    (calc.fn = "video_bitrate_k" /\ calc.done /\ calc.dn > 0) =>
        LET k == calc.args.b
            budget_dn == 8 * calc.target_bytes * calc.dd
        IN /\ k >= 100
           /\ budget_dn > (100000 + 128000) * calc.dn
              => (k * 1000 + 128000) * calc.dn <= budget_dn

C12_Witness ==
    /\ calc.fn = "video_bitrate_k" /\ calc.done
    /\ calc.target_bytes = 100000 /\ calc.dn = 3 /\ calc.dd = 1
    /\ calc.args.b = 138

\* C13: the scale policy applied to its own result gives that result again,
\* for every source width and height.
C13_ScaleIdempotent ==
    (calc.fn = "scale_filter" /\ calc.done) =>
        ScalePolicy(calc.out.width, calc.out.height) = calc.out

\* C19: for every target_bytes of the u64 word and every measured size the
\* early-stop test of the tiered loop accepts exactly the sizes within 110%
\* of the target: it agrees with 10 * size <= 11 * target_bytes.
C19_EarlyStopWithoutWrap ==
    (calc.fn = "early_stop" /\ calc.done) =>
        (calc.stop <=> Fits(calc.final_size, calc.target_bytes))

\* ------------------------------------------------------------------------
\* Properties of one job: termination and failure (SpecLive, Spec)
\* ------------------------------------------------------------------------
\* C14: with a prober and encoder processes that exit, every submitted
\* request comes to its result; the result is given once and stays, a tiered
\* job having made at most NumTiers encoder invocations, and a job that has
\* returned does nothing more.
C14_ExactlyOneResult ==
    /\ \A j \in Jobs : (job[j].pc # "idle") ~> Done(j)
    /\ [](\A j \in Jobs :
            /\ Done(j) <=> ret[j] # Pending
            /\ Tiered(j) => cnt[j].encoder <= NumTiers
            /\ (Done(j) /\ mon[j].alive) =>
                 job[j].invocations[Len(job[j].invocations)].outcome
                     = "wait_error")
    /\ [][\A j \in Jobs :
            Done(j) => /\ ret'[j] = ret[j] /\ job'[j] = job[j]
                       /\ ev'[j] = ev[j] /\ cnt'[j] = cnt[j]
                       /\ mon'[j] = mon[j] /\ fs' = fs]_vars

C14_Witness ==
    \E j \in Jobs :
        /\ Succeeded(j) /\ Tiered(j)
        /\ cnt[j].encoder = NumTiers
        /\ ~Fits(job[j].final_size, job[j].req.target_bytes)

\* the prober could not be run, failed, or gave no duration
ProberFailed(run) ==
    ~run.spawned \/ ~run.exit_ok \/ run.lines = 0 \/ run.duration = 0

\* C15: a job of a recognized kind whose prober fails or gives no duration
\* returns success = false at once: it has run no encoder and no capability
\* probe, written no sidecar, deleted no file, and the analyzing event at 0
\* is the only event it has emitted.
C15_ProberFailureFailsFast ==
    \A j \in Jobs :
        (IsSome(job[j].probe) /\ ProberFailed(job[j].probe[1])) =>
            /\ job[j].req.conversion_type \in KnownTypes
            /\ Done(j) /\ ret[j].tag = "Ok" /\ ~ret[j].val.success
            /\ IsSome(ret[j].val.error)
            /\ cnt[j] = [NoCounts EXCEPT !.prober = 1]
            /\ job[j].invocations = <<>>
            /\ mon[j] = IdleMon
            /\ ev[j] = [progress |-> 0, status |-> "analyzing"]
            /\ \A k \in Kinds : capProbes[k] = 0 /\ cache[k] = None
            /\ \A p \in AllPaths : fs[p] = None

C15_Witness ==
    \E j \in Jobs :
        /\ Done(j) /\ job[j].req.conversion_type = "gif"
        /\ IsSome(job[j].probe)
        /\ job[j].probe[1].exit_ok /\ job[j].probe[1].lines = 1
        /\ job[j].probe[1].duration = 0
        /\ ~ret[j].val.success

\* an encoder invocation that could not be spawned, exited non-zero, or
\* could not be awaited
FailedOutcomes == {"spawn_failed", "exit_failed", "wait_error"}

\* C16: an encoder invocation of a job that has failed is the last one the
\* job has started: no pass 2 behind a failed pass 1, no tier behind a failed
\* tier, no second run of the same invocation; the job is done with
\* success = false.
C16_NoInvocationAfterFailure ==
    \A j \in Jobs :
        LET invs == job[j].invocations
        IN /\ Len(invs) = cnt[j].encoder
           /\ \A i \in DOMAIN invs :
                invs[i].outcome \in FailedOutcomes =>
                    /\ i = Len(invs)
                    /\ Done(j) /\ ret[j].tag = "Ok" /\ ~ret[j].val.success
                    /\ job[j].fault \in {"spawn", "encoder"}
           /\ \A i \in DOMAIN invs : \A k \in DOMAIN invs :
                (i < k /\ invs[i].stage = invs[k].stage)
                    => invs[i].tier < invs[k].tier

C16_Witness ==
    \E j \in Jobs :
        /\ Done(j) /\ ~ret[j].val.success
        /\ Len(job[j].invocations) = 1
        /\ job[j].invocations[1].stage = "pass1"
        /\ job[j].invocations[1].outcome = "exit_failed"

\* C17: the stages of a two-pass job follow one another: when pass 2 is
\* spawned the pass-1 process has exited with its progress stream read to
\* the end, no encoder process of a job is spawned while another one of the
\* job is alive, and only the last invocation of a job can be running.
C17_PassesStrictlySequential ==
    \A j \in Jobs :
        LET invs == job[j].invocations
        IN /\ ~mon[j].overlap
           /\ \A i \in DOMAIN invs :
                invs[i].outcome = "running" =>
                    i = Len(invs) /\ job[j].pc = "read" /\ mon[j].alive
           /\ job[j].pc = "spawn" => ~mon[j].alive
           /\ (job[j].stage = "pass2" /\ job[j].pc = "spawn") =>
                /\ Len(invs) = 1 /\ invs[1].stage = "pass1"
                /\ invs[1].outcome = "exit_ok"
                /\ mon[j].phase = "exited" /\ mon[j].final_cb
           /\ \A i \in DOMAIN invs :
                invs[i].stage = "pass2" =>
                    i = 2 /\ invs[1].stage = "pass1"
                    /\ invs[1].outcome = "exit_ok"

C17_Witness ==
    \E j \in Jobs :
        /\ job[j].stage = "pass2" /\ job[j].pc = "read"
        /\ Len(job[j].invocations) = 2
        /\ job[j].invocations[1].outcome = "exit_ok"
        /\ job[j].invocations[2].outcome = "running"
        /\ mon[j].alive /\ mon[j].lines = 1

C20_RateTripleExact ==
    \A j \in Jobs :
        \A i \in DOMAIN job[j].invocations :
            LET inv == job[j].invocations[i]
            IN inv.stage # "tier" =>
                 /\ inv.rate.b = job[j].video_bitrate_k
                 /\ inv.rate.maxrate = (3 * inv.rate.b) \div 2
                 /\ inv.rate.bufsize = 2 * inv.rate.b
                 /\ inv.rate = job[j].invocations[1].rate

\* ------------------------------------------------------------------------
\* Properties of the capability slots under concurrent jobs (SpecCap)
\* ------------------------------------------------------------------------
\* a slot holds nothing or one boolean
SlotValues == {None, Some(TRUE), Some(FALSE)}

\* C21: under any interleaving of concurrent jobs each capability slot is
\* write-once: it is unset or holds one boolean, and once it holds a value no
\* step changes that value or returns the slot to unset.
C21_SlotsWriteOnce ==
    /\ [](\A k \in Kinds : cache[k] \in SlotValues)
    /\ [][\A k \in Kinds : cache[k] # None => cache'[k] = cache[k]]_vars

\* a check that computed the opposite of what the slot already held has
\* returned: its set was offered to a set slot
C21_Witness ==
    \E k \in Kinds : \E j \in Answered(k) :
        /\ cnt[j].cap = 1
        /\ IsSome(cache[k])
        /\ cache[k] # Some(job[j].use_nvenc)

\* the jobs whose capability check of kind k ran a listing that could not be
\* started
SpawnFailed(k) ==
    {j \in Answered(k) : /\ IsSome(job[j].listing)
                         /\ ~job[j].listing[1].spawned}

\* C22: when the listing of a capability check cannot be started, the check
\* returns false, the slot holds false, and every check of that kind answered
\* from the slot returns false without running a listing.
C22_SpawnFailureIsCachedFalse ==
    \A k \in Kinds :
        SpawnFailed(k) # {} =>
            /\ \A j \in SpawnFailed(k) : job[j].use_nvenc = FALSE
            /\ cache[k] = Some(FALSE)
            /\ \A i \in Answered(k) :
                   cnt[i].cap = 0 => job[i].use_nvenc = FALSE

\* the slots a job of conversion type ty may touch
SlotsOf(ty) ==
    IF ty \in H264Types THEN {"h264_nvenc"}
    ELSE IF ty = "mp4_hevc" THEN {"hevc_nvenc"}
    ELSE {}

\* the jobs that have passed analysis and consult slot k
PastAnalysis(k) ==
    {j \in Jobs : /\ job[j].pc \in {"cap_get", "cap_wait", "prepare"}
                  /\ k \in SlotsOf(job[j].req.conversion_type)}

\* C23: the two capability kinds are independent and lazy: a slot is set, or
\* its listing run, only once a job consulting that kind (mp4, mov, mkv for
\* H.264; mp4_hevc for HEVC; never webp or gif) has passed analysis, and a
\* step changes a slot or its listing count only when the job taking the step
\* consults that kind.
C23_KindsIndependentAndLazy ==
    /\ [](\A k \in Kinds :
            (cache[k] # None \/ capProbes[k] > 0) => PastAnalysis(k) # {})
    /\ [](\A j \in Jobs :
            cnt[j].cap > 0 => SlotsOf(job[j].req.conversion_type) # {})
    /\ [][\A k \in Kinds :
            (cache'[k] # cache[k] \/ capProbes'[k] # capProbes[k]) =>
                \E j \in Jobs :
                    /\ job'[j] # job[j]
                    /\ k \in SlotsOf(job[j].req.conversion_type)]_vars

\* an H.264 job has its answer and a tiered job and an HEVC job have passed
\* analysis, the HEVC slot still untouched
C23_Witness ==
    /\ cache["h264_nvenc"] # None
    /\ cache["hevc_nvenc"] = None
    /\ capProbes["hevc_nvenc"] = 0
    /\ \E j \in Jobs : /\ job[j].req.conversion_type = "mp4"
                       /\ job[j].pc = "prepare"
    /\ \E j \in Jobs : /\ job[j].req.conversion_type = "webp"
                       /\ job[j].pc = "tier_begin"
                       /\ cnt[j].cap = 0
    /\ \E j \in Jobs : /\ job[j].req.conversion_type = "mp4_hevc"
                       /\ job[j].pc = "cap_get"

\* ------------------------------------------------------------------------
\* Properties of the events of one job (Spec)
\* ------------------------------------------------------------------------
\* C24: the status labels of a job follow analyzing, converting, completed:
\* the first event is analyzing at 0, no analyzing follows another event, a
\* completed event carries 100, is the last event of the job (so there is at
\* most one) and is there exactly when the result has success = true.
C24_StatusOrder ==
    /\ [](\A j \in Jobs :
            /\ ev[j].status = "completed" =>
                   /\ ev[j].progress = 100 * Percent
                   /\ Done(j)
                   /\ ret[j].val.success
            /\ (Done(j) /\ ret[j].val.success) => ev[j].status = "completed"
            /\ (Done(j) /\ ~ret[j].val.success) =>
                   ev[j].status \in {"none", "analyzing", "converting"})
    /\ [][\A j \in Jobs :
            ev'[j] # ev[j] =>
                /\ ev[j].status # "completed"
                /\ ev[j].status = "none" =>
                       ev'[j] = [progress |-> 0, status |-> "analyzing"]
                /\ ev'[j].status = "analyzing" => ev[j].status = "none"
                /\ ev'[j].status \in {"analyzing", "converting", "completed"}
      ]_vars

\* a job of two encoder invocations has ended on its completed event
C24_Witness ==
    \E j \in Jobs :
        /\ Done(j)
        /\ Len(job[j].invocations) >= 2
        /\ ev[j] = [progress |-> 100 * Percent, status |-> "completed"]
        /\ ret[j].val.success

\* the sub-range of the job's progress given to a stage (to tier i of the
\* tiered loop), as <<low, high>>
SubRange(stage, i) ==
    CASE stage = "single" -> <<5 * Percent, 100 * Percent>>
      [] stage = "pass1"  -> <<5 * Percent, 50 * Percent>>
      [] stage = "pass2"  -> <<50 * Percent, 100 * Percent>>
      [] stage = "tier"   -> <<(90 * Percent * i) \div NumTiers,
                               (90 * Percent * (i + 1)) \div NumTiers>>

InSubRange(v, stage, i) ==
    SubRange(stage, i)[1] <= v /\ v <= SubRange(stage, i)[2]

\* C25: every event an encoder invocation gives rise to lies in the sub-range
\* of its stage: [5,50] for pass 1, [50,100] for pass 2, [5,100] for a single
\* pass, [90i/N, 90(i+1)/N] for tier i of N; a stage ends on the value the
\* next stage starts from, and the converting event before the first
\* invocation lies in the sub-range of the first stage.
C25_EventsWithinStageRange ==
    /\ [](/\ MapProgress("pass1", 0, 100 * Percent)
               = MapProgress("pass2", 0, 0)
          /\ \A i \in 0..(NumTiers - 2) :
                MapProgress("tier", i, 100 * Percent)
                    = MapProgress("tier", i + 1, 0)
          /\ \A j \in Jobs :
                (job[j].pc \in {"spawn", "read"}
                    /\ ev[j].status = "converting") =>
                    InSubRange(ev[j].progress, job[j].stage, job[j].tier))
    /\ [][\A j \in Jobs :
            (job[j].pc = "read" /\ ev'[j] # ev[j]) =>
                /\ ev'[j].status = "converting"
                /\ InSubRange(ev'[j].progress, job[j].stage, job[j].tier)
      ]_vars

\* events strictly inside the sub-ranges of pass 2 and of a later tier
C25_Witness ==
    \E j \in Jobs :
        /\ job[j].pc = "read"
        /\ \/ job[j].stage = "pass2"
           \/ job[j].stage = "tier" /\ job[j].tier >= 1
        /\ SubRange(job[j].stage, job[j].tier)[1] < ev[j].progress
        /\ ev[j].progress < SubRange(job[j].stage, job[j].tier)[2]

\* ------------------------------------------------------------------------
\* Properties of the files of one job after an encoder failure (Spec)
\* ------------------------------------------------------------------------
\* C26: when a bitrate-capped job has returned, with success = true or with a
\* failure of an encoder invocation, and no deletion failed, neither
\* pass-statistics file and no chapter sidecar of the job is left.
C26_NoSideFilesWhateverOutcome ==
    \A j \in Jobs :
        (/\ Done(j) /\ BitrateCapped(j)
         /\ \/ Succeeded(j)
            \/ job[j].fault \in {"spawn", "encoder"}
         /\ ~cnt[j].delete_failed) =>
            \A p \in SideFiles(j) : fs[p] = None

\* job j has an encoder invocation that failed
EncoderFailed(j) ==
    \E i \in DOMAIN job[j].invocations :
        job[j].invocations[i].outcome \in FailedOutcomes

\* C27: once an encoder invocation of a job has failed, the job neither
\* writes nor deletes its output file: the failed result is returned with the
\* output path as the failed invocation left it, and no later step of the job
\* changes it or starts another invocation.
C27_OutputUntouchedAfterFailure ==
    /\ [](\A j \in Jobs :
            EncoderFailed(j) => (Done(j) /\ ~ret[j].val.success))
    /\ [][\A j \in Jobs :
            EncoderFailed(j) =>
                LET out == OutputPath(job[j].req.output_name)
                IN /\ fs'[out] = fs[out]
                   /\ cnt'[j].fs_delete = cnt[j].fs_delete
                   /\ cnt'[j].fs_write = cnt[j].fs_write
                   /\ job'[j].invocations = job[j].invocations
      ]_vars

\* a later tier has failed, leaving a partial output behind
C27_Witness ==
    \E j \in Jobs :
        /\ EncoderFailed(j) /\ Done(j)
        /\ job[j].stage = "tier" /\ job[j].tier >= 1
        /\ job[j].out_tier = Some(job[j].tier)
        /\ fs[OutputPath(job[j].req.output_name)] # None

\* ------------------------------------------------------------------------
\* Properties of the chapter sidecar and the duration of one job (Spec)
\* ------------------------------------------------------------------------
\* the request of job j asks for no chapter: no marker list, an empty one, or
\* one with no marker in the trim window
NoChapterAsked(j) ==
    LET r == job[j].req
    IN \/ r.markers = None
       \/ r.markers[1] = <<>>
       \/ WindowOf(r.markers[1], UnwrapOr(r.trim_start, 0),
                   r.trim_duration) = <<>>

\* C28: an mkv job whose markers are absent, empty, or all outside the trim
\* window writes no chapter sidecar and hands every encoder invocation the
\* media file as its only input; having no chapter is no failure of the job.
C28_EmptyChaptersNoSidecar ==
    \A j \in Jobs :
        (job[j].req.conversion_type = "mkv" /\ NoChapterAsked(j)) =>
            /\ cnt[j].fs_write = 0
            /\ job[j].metadata_path = None
            /\ job[j].metadata = None
            /\ fs[ChapterFile(JobId(j))] = None
            /\ job[j].fault # "chapter_write"
            /\ \A i \in DOMAIN job[j].invocations :
                   job[j].invocations[i].inputs = 1

\* an mkv job to clip.mkv whose only marker lies behind the trim window has
\* returned success = true after two invocations
C28_Witness ==
    \E j \in Jobs :
        /\ Succeeded(j)
        /\ job[j].req.conversion_type = "mkv"
        /\ EndsWithMkv(job[j].req.output_name)
        /\ IsSome(job[j].req.markers) /\ job[j].req.markers[1] # <<>>
        /\ NoChapterAsked(j)
        /\ Len(job[j].invocations) = 2
        /\ cnt[j].fs_write = 0

\* the length of the output the arguments of an invocation ask the encoder
\* for, on a media file of the given duration: -t when given, else what is
\* left of the file behind -ss
AskedDuration(inv, media_duration) ==
    IF IsSome(inv.t) THEN inv.t[1]
    ELSE media_duration - UnwrapOr(inv.ss, 0)

\* C29: the effective duration of a job is the length of the output every
\* one of its encoder invocations is asked for: it is the duration handed to
\* each run_ffmpeg_with_progress call, the one the video bitrate is computed
\* from, and the end of the last chapter of the sidecar.
C29_EffectiveDurationIsOutputDuration ==
    \A j \in Jobs :
        LET media == get_video_info(job[j].probe[1]).val.duration
            invs == job[j].invocations
        IN \A i \in DOMAIN invs :
             LET asked == AskedDuration(invs[i], media)
             IN /\ invs[i].duration = asked
                /\ job[j].duration = asked
                /\ BitrateCapped(j) =>
                       job[j].video_bitrate_k
                           = VideoBitrateK(job[j].req.target_bytes, asked, 1)
                /\ IsSome(job[j].metadata) =>
                       LET ch == job[j].metadata[1].chapters
                       IN ch[Len(ch)].END = Millis(asked)

\* ------------------------------------------------------------------------
\* run_ffmpeg_with_progress and the pipes of the encoder process
\* ------------------------------------------------------------------------
\* chunks a pipe holds before a write to it blocks
PipeCapacity == 2
\* chunks an encoder process writes to one stream before it exits
MaxWrites == 3

Streams == {"stdout", "stderr"}

\* an encoder process spawned with stdout and stderr piped, nothing written
\* yet: left[s] chunks to write to stream s, buf[s] chunks held by the pipe of
\* s, blocked the stream whose full pipe the process waits on, utf8 whether
\* every line of its stdout is UTF-8, reading whether the `while let` loop is
\* still on
Spawned(out, err, utf8) ==
    [on |-> TRUE, utf8 |-> utf8,
     left |-> [s \in Streams |-> IF s = "stdout" THEN out ELSE err],
     buf |-> [s \in Streams |-> 0],
     blocked |-> "none", exited |-> FALSE, reading |-> TRUE,
     waited |-> FALSE]

InitPipes ==
    /\ InitPipeline
    /\ trim = NoTrim
    /\ calc = NoCalc
    /\ \E out \in 0..MaxWrites, err \in 0..MaxWrites, utf8 \in BOOLEAN :
         pipe = Spawned(out, err, utf8)

\* the encoder process writes its next chunk to stream s, or is held by the
\* full pipe of s
encoder_write(s) ==
    /\ pipe.on /\ ~pipe.exited
    /\ pipe.blocked \in {"none", s}
    /\ pipe.left[s] > 0
    /\ IF pipe.buf[s] < PipeCapacity
       THEN pipe' = [pipe EXCEPT !.buf[s] = @ + 1, !.left[s] = @ - 1,
                                 !.blocked = "none"]
       ELSE pipe' = [pipe EXCEPT !.blocked = s]
    /\ UNCHANGED <<job, mon, ev, cnt, ret, cache, capProbes, fs, trim, calc>>

\* the encoder process has written all it had to and exits, closing its ends
encoder_exit ==
    /\ pipe.on /\ ~pipe.exited
    /\ pipe.blocked = "none"
    /\ \A s \in Streams : pipe.left[s] = 0
    /\ pipe' = [pipe EXCEPT !.exited = TRUE]
    /\ UNCHANGED <<job, mon, ev, cnt, ret, cache, capProbes, fs, trim, calc>>

\* reader.next_line().await gives Ok(Some(line)): one chunk leaves stdout
next_line ==
    /\ pipe.on /\ pipe.reading
    /\ pipe.buf["stdout"] > 0
    /\ pipe' = [pipe EXCEPT !.buf["stdout"] = @ - 1]
    /\ UNCHANGED <<job, mon, ev, cnt, ret, cache, capProbes, fs, trim, calc>>

\* reader.next_line().await gives Ok(None) at the end of stdout, or Err on a
\* line that is not UTF-8: the loop ends
next_line_end ==
    /\ pipe.on /\ pipe.reading
    /\ \/ pipe.buf["stdout"] = 0 /\ pipe.exited
       \/ pipe.buf["stdout"] > 0 /\ ~pipe.utf8
    /\ pipe' = [pipe EXCEPT !.reading = FALSE]
    /\ UNCHANGED <<job, mon, ev, cnt, ret, cache, capProbes, fs, trim, calc>>

\* child.wait().await returns once the process has exited
child_wait ==
    /\ pipe.on /\ ~pipe.reading
    /\ pipe.exited /\ ~pipe.waited
    /\ pipe' = [pipe EXCEPT !.waited = TRUE]
    /\ UNCHANGED <<job, mon, ev, cnt, ret, cache, capProbes, fs, trim, calc>>

NextPipes ==
    \/ \E s \in Streams : encoder_write(s)
    \/ encoder_exit
    \/ next_line
    \/ next_line_end
    \/ child_wait

\* the process and the future of run_ffmpeg_with_progress each keep taking
\* the steps they can take
SpecPipes ==
    /\ InitPipes /\ [][NextPipes]_vars
    /\ WF_vars(\E s \in Streams : encoder_write(s))
    /\ WF_vars(encoder_exit)
    /\ WF_vars(next_line)
    /\ WF_vars(pipe.buf["stdout"] = 0 /\ next_line_end)
    /\ WF_vars(child_wait)

\* C30: an encoder process that exits once its writes have gone through, and
\* whose progress lines are UTF-8, is never left waiting on a full pipe for
\* ever: whenever it is held by a full stdout or stderr pipe it gets on, and
\* in the end it has exited and run_ffmpeg_with_progress has its exit status.
C30_EncoderNeverBlockedForever ==
    pipe.utf8 =>
        /\ (pipe.blocked # "none") ~> (pipe.blocked = "none")
        /\ <>(pipe.exited /\ pipe.waited)

\* ------------------------------------------------------------------------
\* Two jobs side by side (files)
\* ------------------------------------------------------------------------
\* the requests of two jobs started on the same input file
PairRequests ==
    {MkRequest("webp", "clip.webp", 137, None, None, None),
     MkRequest("mkv", "clip.mkv", 200, None, None,
               Some(<<Marker(1, 1, None)>>))}

Pair == {1, 2}

\* what a job does, its encoder writing no progress line
PairStep(j) ==
    \/ \E r \in PairRequests : convert_file(j, r)
    \/ get_video_info_done(j)
    \/ check_nvenc_available_get(j)
    \/ check_nvenc_available_set(j)
    \/ prepare(j)
    \/ spawn(j)
    \/ wait(j)
    \/ cleanup_logs(j)
    \/ finish(j)
    \/ tier_begin(j)
    \/ measure(j)
    \/ tier_end(j)

\* a job on a machine without NVENC whose prober, encoders, writes and
\* deletions all succeed, and which fits its target by the second tier
Plain(jb, c) ==
    /\ jb.fault = "none" /\ ~c.delete_failed /\ jb.tier <= 1
    /\ jb.probe \in {None, Some(ProberRun(TRUE, TRUE, 2, 4, 1920, 1080))}
    /\ jb.listing \in {None, Some(Listing(TRUE, {}))}

\* two such jobs under distinct ids, any interleaving
NextPair == \E j \in Pair : PairStep(j) /\ Plain(job'[j], cnt'[j])

SpecPair == Init /\ [][NextPair]_vars

\* the files job i has written and not removed, while it is running
Held(i) ==
    IF job[i].pc \in {"idle", "done"} THEN {}
    ELSE (IF job[i].out_tier # None
          THEN {OutputPath(job[i].req.output_name)} ELSE {})
         \cup (IF job[i].stage = "pass2"
               THEN X264StatsFiles(job[i].req.output_name) ELSE {})
         \cup (IF job[i].metadata_path # None
               THEN {job[i].metadata_path[1]} ELSE {})

\* C31: two jobs of distinct ids share nothing but the capability cache: no
\* step of one job overwrites or deletes a file (output, pass-statistics
\* file, chapter sidecar) the other job has written and still holds.
C31_JobsShareNoFile ==
    [][\A i \in Pair : \A j \in Pair \ {i} :
          job'[j] # job[j] =>
              \A p \in Held(i) : fs'[p] = fs[p]]_vars

\* ------------------------------------------------------------------------
\* Properties of the chapter sidecar a job writes (Spec)
\* ------------------------------------------------------------------------
\* C32: in every chapter sidecar a job writes, from the markers adjusted for
\* the trim window and the effective duration, each chapter has START <= END
\* and ends where the next chapter starts.
C32_SidecarChaptersWellFormed ==
    \A j \in Jobs :
        IsSome(job[j].metadata) =>
            LET ch == job[j].metadata[1].chapters
            IN \A i \in DOMAIN ch :
                 /\ ch[i].START <= ch[i].END
                 /\ i < Len(ch) => ch[i].END = ch[i + 1].START

\* ------------------------------------------------------------------------
\* Properties of the result of one job (Spec)
\* ------------------------------------------------------------------------
\* C33: when a job has returned success = true, the file at the returned
\* output path exists and the returned size is its size; a job whose encoder
\* left no file at the output path does not return success = true.
C33_SuccessMeansOutputExists ==
    \A j \in Jobs :
        Succeeded(j) =>
            LET out == OutputPath(job[j].req.output_name)
            IN /\ ret[j].val.output_path = Some(out)
               /\ fs[out] # None
               /\ ret[j].val.output_size = Some(fs[out][1])

\* ------------------------------------------------------------------------
\* Properties of the markers of one job (Spec)
\* ------------------------------------------------------------------------
\* job j has written no sidecar and given no encoder invocation a second
\* input
NoSidecar(j) ==
    /\ cnt[j].fs_write = 0
    /\ job[j].metadata_path = None
    /\ job[j].metadata = None
    /\ fs[ChapterFile(JobId(j))] = None
    /\ \A i \in DOMAIN job[j].invocations : job[j].invocations[i].inputs = 1

\* C34: markers act on chaptered mkv output only: a job of type mp4, mov,
\* mp4_hevc, webp or gif writes no sidecar and gives the encoder no second
\* input whatever markers it was handed, a job of type mkv does so only when
\* its output name ends in .mkv, and a written sidecar is a second input of
\* pass 2 (or of the single pass), never of pass 1.
C34_MarkersOnlyForMkv ==
    \A j \in Jobs :
        LET r == job[j].req
            invs == job[j].invocations
        IN /\ r.conversion_type # "mkv" => NoSidecar(j)
           /\ ~EndsWithMkv(r.output_name) => NoSidecar(j)
           /\ \A i \in DOMAIN invs :
                /\ invs[i].stage = "pass1" => invs[i].inputs = 1
                /\ invs[i].inputs =
                       IF invs[i].stage \in {"pass2", "single"}
                          /\ job[j].metadata_path # None
                       THEN 2 ELSE 1

\* a mov job handed a marker and an output name ending in .mkv has returned
\* success = true after two passes without a sidecar
C34_Witness ==
    \E j \in Jobs :
        /\ Succeeded(j)
        /\ job[j].req.conversion_type = "mov"
        /\ EndsWithMkv(job[j].req.output_name)
        /\ IsSome(job[j].req.markers) /\ job[j].req.markers[1] # <<>>
        /\ Len(job[j].invocations) = 2
        /\ NoSidecar(j)

====
